---- MODULE Spec2Model ----
(***************************************************************************)
(* Model of the backtor-restic conductor worker (main.go).                 *)
(*                                                                         *)
(* One "main" goroutine runs initRepo() and registers the two handlers;    *)
(* every delivered task runs backupTask or removeTask in a goroutine of    *)
(* its own.  All of them go through the process-wide mutex repoLock.       *)
(* The restic engine is an external command: an engine call is a window    *)
(* that opens when ExecShellf starts the command and closes when the       *)
(* command exits (or is killed by the timeout).                            *)
(*                                                                         *)
(* Engine output is a sequence of symbols.  The three keywords the two     *)
(* regular expressions look for are single symbols; the other symbols are  *)
(* single characters.                                                      *)
(***************************************************************************)
EXTENDS Integers, Sequences, FiniteSets, TLC

\* ------------------------------------------------------------------ bounds
NumTasks == 2
MaxOut == 3

\* ------------------------------------------------------- program constants
DefaultTimeout == 60
FixedSizeMB == 111

\* ------------------------------------------------------------------ values
Tasks == 1..NumTasks
MainProc == 0

KwRemoved == "removed "
KwSnapshot == "snapshot "
KwSaved == " saved"

\* the single characters an engine output is made of, besides the keywords;
\* all of them are in the class [0-9a-zA-z]
IdChars == {"a", "b"}
Alphabet == {KwRemoved, KwSnapshot, KwSaved} \cup IdChars

RECURSIVE SeqsUpTo(_, _)
SeqsUpTo(S, n) ==
    IF n = 0 THEN {<< >>}
    ELSE LET shorter == SeqsUpTo(S, n - 1)
         IN  shorter \cup {Append(s, c) : s \in {x \in shorter : Len(x) = n - 1}, c \in S}

\* what the engine may print
Outputs == SeqsUpTo(Alphabet, MaxOut)
\* the identifiers a remove request may ask for
RequestIds == {<<"a">>, <<"b">>}

\* a field of task.InputData: absent, a string, a number, or a value of another type
Absent == [kind |-> "absent", str |-> "", id |-> << >>, num |-> 0]
Other == [kind |-> "other", str |-> "", id |-> << >>, num |-> 0]
Str(s) == [kind |-> "string", str |-> s, id |-> << >>, num |-> 0]
IdStr(i) == [kind |-> "string", str |-> "", id |-> i, num |-> 0]
Num(n) == [kind |-> "number", str |-> "", id |-> << >>, num |-> n]

BackupNames == {Absent, Str(""), Str("db1")}
TimeoutFields == {Absent, Other, Num(30)}
DataIdFields == {Absent} \cup {IdStr(i) : i \in RequestIds}

BackupRequests ==
    {[type |-> "backup", backupName |-> n, timeoutSeconds |-> to, dataId |-> Absent] :
        n \in BackupNames, to \in TimeoutFields}
RemoveRequests ==
    {[type |-> "remove", backupName |-> n, timeoutSeconds |-> Absent, dataId |-> d] :
        n \in BackupNames, d \in DataIdFields}
NoRequest == [type |-> "none", backupName |-> Absent, timeoutSeconds |-> Absent, dataId |-> Absent]

\* what os.Stat can answer for the source directory
StatOutcomes == {"exists", "notexist", "error"}

\* *task.TaskResult
NilResult == [status |-> "nil", outputKeys |-> {}, dataId |-> << >>, dataSizeMB |-> 0]
BackupResult(id, size) ==
    [status |-> "COMPLETED", outputKeys |-> {"dataId", "dataSizeMB"}, dataId |-> id, dataSizeMB |-> size]
RemoveResult == [status |-> "COMPLETED", outputKeys |-> {}, dataId |-> << >>, dataSizeMB |-> 0]

\* an engine call that has returned
NoCall == [owner |-> MainProc, verb |-> "none", ok |-> FALSE, timedOut |-> FALSE, out |-> << >>]
Call(p, v, ok, to, out) == [owner |-> p, verb |-> v, ok |-> ok, timedOut |-> to, out |-> out]

\* ------------------------------------------------------- regular expressions
\* The longest run of [0-9a-zA-z] characters of s from position i on.  A
\* keyword that starts with letters ("removed ", "snapshot ") extends the run
\* by its letters and ends it at its space; " saved" ends it at once.
RECURSIVE ClassRun(_, _)
ClassRun(s, i) ==
    IF i > Len(s) THEN [cap |-> << >>, next |-> i, inKeyword |-> FALSE]
    ELSE IF s[i] \in IdChars
         THEN LET rest == ClassRun(s, i + 1)
              IN  [rest EXCEPT !.cap = <<s[i]>> \o rest.cap]
    ELSE IF s[i] = KwRemoved
         THEN [cap |-> <<"removed">>, next |-> i + 1, inKeyword |-> TRUE]
    ELSE IF s[i] = KwSnapshot
         THEN [cap |-> <<"snapshot">>, next |-> i + 1, inKeyword |-> TRUE]
    ELSE [cap |-> << >>, next |-> i, inKeyword |-> FALSE]

\* "snapshot ([0-9a-zA-z]+) saved" matches at position i
SavedMatchAt(s, i) ==
    /\ i <= Len(s)
    /\ s[i] = KwSnapshot
    /\ LET run == ClassRun(s, i + 1)
       IN  /\ Len(run.cap) >= 1
           /\ ~run.inKeyword
           /\ run.next <= Len(s)
           /\ s[run.next] = KwSaved

\* "removed snapshot ([0-9a-zA-z]+)" matches at position i
RemovedMatchAt(s, i) ==
    /\ i + 1 <= Len(s)
    /\ s[i] = KwRemoved
    /\ s[i + 1] = KwSnapshot
    /\ Len(ClassRun(s, i + 2).cap) >= 1

\* rex.FindStringSubmatch(result): << >> (nil) when nothing matches, else
\* <<the text of the leftmost match, the captured group>>
FindSaved(s) ==
    LET at == {i \in 1..Len(s) : SavedMatchAt(s, i)}
    IN  IF at = {} THEN << >>
        ELSE LET i == CHOOSE j \in at : \A k \in at : j <= k
                 run == ClassRun(s, i + 1)
             IN  <<<<KwSnapshot>> \o run.cap \o <<KwSaved>>, run.cap>>

\* FindRemoved with a fault: the whole match is handed out as the group
FindRemovedWholeMatch(s) ==
    LET at == {i \in 1..Len(s) : RemovedMatchAt(s, i)}
    IN  IF at = {} THEN << >>
        ELSE LET i == CHOOSE j \in at : \A k \in at : j <= k
                 run == ClassRun(s, i + 2)
             IN  <<<<KwRemoved, KwSnapshot>> \o run.cap, <<KwRemoved, KwSnapshot>> \o run.cap>>

FindRemoved(s) ==
    LET at == {i \in 1..Len(s) : RemovedMatchAt(s, i)}
    IN  IF at = {} THEN << >>
        ELSE LET i == CHOOSE j \in at : \A k \in at : j <= k
                 run == ClassRun(s, i + 2)
             IN  <<<<KwRemoved, KwSnapshot>> \o run.cap, run.cap>>

\* ------------------------------------------------------------------- state
VARIABLES
    repoLock,    \* the mutex is locked
    mpc,         \* where main() is
    registered,  \* the task types whose handler c.Start has registered
    crashed,     \* the process died of an unrecovered panic
    slot,        \* per handler goroutine: pc, request, resolved timeout, commands issued
    running,     \* the engine commands executing now
    ret          \* the handler (or initRepo) exit made by the last step, if any

vars == <<repoLock, mpc, registered, crashed, slot, running, ret>>

Idle == [pc |-> "idle", req |-> NoRequest, createTimeout |-> 0, trace |-> << >>, stat |-> "none"]

NoRet == [task |-> MainProc, fn |-> "none", req |-> NoRequest, tr |-> NilResult, err |-> "nil",
          how |-> "none", trace |-> << >>, stat |-> "none", warned |-> FALSE,
          createTimeout |-> 0, call |-> NoCall]

Init ==
    /\ repoLock = FALSE
    /\ mpc = "initRepo"
    /\ registered = {}
    /\ crashed = FALSE
    /\ slot = [t \in Tasks |-> Idle]
    /\ running = {}
    /\ ret = NoRet

\* ----------------------------------------------------------------- helpers
\* the process is alive, and the value the last finished function returned has
\* been taken by its caller
Live == ~crashed /\ ret = NoRet

\* LockFree with a fault: Lock() that never blocks
LockNeverBlocks == TRUE

\* repoLock.Lock() returns only when the mutex is not locked
LockFree == ~repoLock

\* Release with a fault: a way out that does not unlock
ReleaseSkipped == repoLock' = repoLock

\* defer repoLock.Unlock(): runs on every way out of the function, a panic included
Release == repoLock' = FALSE

\* ExecShellf / ExecShellfTimeout start an engine command ...
Started(p, verb) == {[owner |-> p, verb |-> verb]}
\* ... and return when it has exited (or was killed)
Exited(p, verb) == running \ {[owner |-> p, verb |-> verb]}

Outcome(tr, err, how, warned, call) ==
    [tr |-> tr, err |-> err, how |-> how, warned |-> warned, call |-> call]
Returned(tr, err, call) == Outcome(tr, err, "returned", FALSE, call)
\* a run-time panic: no value is returned
Panicked(warned, call) == Outcome(NilResult, "nil", "panicked", warned, call)

\* A handler leaves: with the local state loc it had reached and the outcome o.
\* The deferred unlock runs, the goroutine ends.  Nothing in main.go recovers
\* a panic: it goes up to the worker library that called the handler, and the
\* process ends unless the library recovers it, which is left open.
Exit(t, fn, loc, o) ==
    /\ Release
    /\ slot' = [slot EXCEPT ![t] = Idle]
    /\ ret' = [task |-> t, fn |-> fn, req |-> loc.req, tr |-> o.tr, err |-> o.err,
               how |-> o.how, trace |-> loc.trace, stat |-> loc.stat, warned |-> o.warned,
               createTimeout |-> loc.createTimeout, call |-> o.call]
    /\ crashed' \in (IF o.how = "panicked" THEN BOOLEAN ELSE {crashed})

\* ---------------------------------------------------------------- main()
\* initRepo(): take the lock and probe the repository
InitRepoLock ==
    /\ Live
    /\ mpc = "initRepo"
    /\ LockFree
    /\ repoLock' = TRUE
    /\ running' = running \cup Started(MainProc, "snapshots")
    /\ mpc' = "probe"
    /\ ret' = NoRet
    /\ UNCHANGED <<registered, crashed, slot>>

MainRet(trace, err, call) ==
    [NoRet EXCEPT !.fn = "initRepo", !.err = err, !.how = "returned", !.trace = trace, !.call = call]

\* ProbeReturn with a fault: a failed probe is not followed by "restic init"
ProbeReturnSkipsInit(ok) ==
    /\ Live
    /\ mpc = "probe"
    /\ running' = Exited(MainProc, "snapshots")
    /\ Release
    /\ mpc' = "startBackup"
    /\ ret' = MainRet(<<"snapshots">>, "nil", Call(MainProc, "snapshots", ok, FALSE, << >>))
    /\ UNCHANGED <<registered, crashed, slot>>

\* "restic snapshots" returned
ProbeReturn(ok) ==
    /\ Live
    /\ mpc = "probe"
    /\ IF ok
       THEN /\ running' = Exited(MainProc, "snapshots")
            /\ Release
            /\ mpc' = "startBackup"
            /\ ret' = MainRet(<<"snapshots">>, "nil", Call(MainProc, "snapshots", TRUE, FALSE, << >>))
       ELSE /\ running' = Exited(MainProc, "snapshots") \cup Started(MainProc, "init")
            /\ mpc' = "init"
            /\ ret' = NoRet
            /\ UNCHANGED repoLock
    /\ UNCHANGED <<registered, crashed, slot>>

\* "restic init" returned
InitReturn(ok) ==
    /\ Live
    /\ mpc = "init"
    /\ running' = Exited(MainProc, "init")
    /\ Release
    /\ mpc' = "startBackup"
    /\ ret' = MainRet(<<"snapshots", "init">>, IF ok THEN "nil" ELSE "EngineExecutionError",
                      Call(MainProc, "init", ok, FALSE, << >>))
    /\ UNCHANGED <<registered, crashed, slot>>

\* main() goes on whatever initRepo() returned: the value is not looked at
MayStart(err) == TRUE

\* initRepo() has returned to main(), which creates the worker and calls
\* c.Start("backup", backupTask, false)
StartBackup ==
    /\ ~crashed
    /\ mpc = "startBackup"
    /\ ret.fn = "initRepo"
    /\ MayStart(ret.err)
    /\ registered' = registered \cup {"backup"}
    /\ mpc' = "startRemove"
    /\ ret' = NoRet
    /\ UNCHANGED <<repoLock, crashed, slot, running>>

\* c.Start("remove", removeTask, true)
StartRemove ==
    /\ Live
    /\ mpc = "startRemove"
    /\ registered' = registered \cup {"remove"}
    /\ mpc' = "serving"
    /\ ret' = NoRet
    /\ UNCHANGED <<repoLock, crashed, slot, running>>

\* ------------------------------------------------------- handler goroutines
\* the worker hands a polled task to the handler registered for its type
Deliver(t, r) ==
    /\ Live
    /\ slot[t].pc = "idle"
    /\ r.type \in registered
    /\ slot' = [slot EXCEPT ![t] = [Idle EXCEPT !.pc = "waiting", !.req = r]]
    /\ ret' = NoRet
    /\ UNCHANGED <<repoLock, mpc, registered, crashed, running>>

\* Lock with a fault: a request that finds the guard held is turned away
LockFailsFast(t) ==
    /\ Live
    /\ slot[t].pc = "waiting"
    /\ IF LockFree
       THEN /\ repoLock' = TRUE
            /\ slot' = [slot EXCEPT ![t].pc = "locked"]
            /\ ret' = NoRet
       ELSE /\ slot' = [slot EXCEPT ![t] = Idle]
            /\ ret' = [NoRet EXCEPT !.task = t, !.fn = "backupTask", !.req = slot[t].req,
                                    !.err = "GuardBusy", !.how = "returned"]
            /\ UNCHANGED repoLock
    /\ UNCHANGED <<mpc, registered, crashed, running>>

\* repoLock.Lock() at the top of backupTask and removeTask
Lock(t) ==
    /\ Live
    /\ slot[t].pc = "waiting"
    /\ LockFree
    /\ repoLock' = TRUE
    /\ slot' = [slot EXCEPT ![t].pc = "locked"]
    /\ ret' = NoRet
    /\ UNCHANGED <<mpc, registered, crashed, running>>

\* the handler goes on to "restic unlock"
GoUnlock(t, loc) ==
    /\ slot' = [slot EXCEPT ![t] = [loc EXCEPT !.pc = "unlock", !.trace = Append(loc.trace, "unlock")]]
    /\ running' = running \cup Started(t, "unlock")
    /\ ret' = NoRet
    /\ UNCHANGED <<repoLock, crashed>>

\* HasField with a fault: the lookup's ok is not looked at
HasFieldAlways(f) == TRUE

\* v, ok := t.InputData[key]: ok
HasField(f) == f.kind # "absent"

\* createTimeout: one minute, or timeoutSeconds when the request has it
ResolveTimeout(to) == IF HasField(to) THEN to.num ELSE DefaultTimeout

\* backupTask, from the lock to the unlock command
BackupValidate(t) ==
    /\ Live
    /\ slot[t].pc = "locked"
    /\ slot[t].req.type = "backup"
    /\ LET loc == slot[t]
           bn == loc.req.backupName
           to == loc.req.timeoutSeconds
       IN  IF ~HasField(bn)
           THEN Exit(t, "backupTask", loc, Returned(NilResult, "MissingField", NoCall)) /\ UNCHANGED running
           ELSE IF bn.kind # "string"
           THEN Exit(t, "backupTask", loc, Panicked(FALSE, NoCall)) /\ UNCHANGED running
           ELSE IF HasField(to) /\ to.kind # "number"
           THEN Exit(t, "backupTask", loc, Panicked(FALSE, NoCall)) /\ UNCHANGED running
           ELSE GoUnlock(t, [loc EXCEPT !.createTimeout = ResolveTimeout(to)])
    /\ UNCHANGED <<mpc, registered>>

\* the error ExecShellf / ExecShellfTimeout hand back for a finished call
ExecErr(call) ==
    IF call.timedOut THEN "TimeoutError"
    ELSE IF ~call.ok THEN "EngineExecutionError"
    ELSE "nil"

\* UnlockFailed with a fault: the unlock error is dropped
UnlockFailedIgnored(call) == FALSE

\* _, err2 := ExecShellf("restic -r %s unlock", repoDir); err2 != nil
UnlockFailed(call) == ExecErr(call) # "nil"

\* SourceMissing with a fault: the answer of os.Stat is not looked at
SourceMissingNever(st) == FALSE

\* os.IsNotExist(err) after os.Stat(sourceDir)
SourceMissing(st) == st = "notexist"

\* BackupOutcome with a fault: the error of ExecShellfTimeout is not checked
BackupOutcomeErrDropped(call) ==
    LET id == FindSaved(call.out)
    IN  IF Len(id) # 2
        THEN Panicked(TRUE, call)
        ELSE Returned(BackupResult(id[2], FixedSizeMB), "nil", call)

\* BackupOutcome with a fault: id[0], the whole match, is taken for the identifier
BackupOutcomeWholeMatch(call) ==
    IF ExecErr(call) # "nil"
    THEN Returned(NilResult, ExecErr(call), call)
    ELSE LET id == FindSaved(call.out)
         IN  IF Len(id) # 2
             THEN Panicked(TRUE, call)
             ELSE Returned(BackupResult(id[1], FixedSizeMB), "nil", call)

\* createNewBackup after "restic backup" has returned, and what backupTask
\* makes of it: the error as it is, or the task result
BackupOutcome(call) ==
    IF ExecErr(call) # "nil"
    THEN Returned(NilResult, ExecErr(call), call)
    ELSE LET id == FindSaved(call.out)
             success == Len(id) = 2
         IN  IF ~success
             THEN Panicked(TRUE, call)  \* the warning is logged, then id[1] is out of range
             ELSE Returned(BackupResult(id[2], FixedSizeMB), "nil", call)

\* "restic unlock" returned to backupTask; on success createNewBackup checks
\* the source directory and starts "restic backup"
BackupUnlockReturn(t, ok, st) ==
    /\ Live
    /\ slot[t].pc = "unlock"
    /\ slot[t].req.type = "backup"
    /\ LET loc == slot[t]
           call == Call(t, "unlock", ok, FALSE, << >>)
           checked == [loc EXCEPT !.trace = Append(loc.trace, "stat"), !.stat = st]
       IN  IF UnlockFailed(call)
           THEN /\ Exit(t, "backupTask", loc, Returned(NilResult, ExecErr(call), call))
                /\ running' = Exited(t, "unlock")
           ELSE IF SourceMissing(st)
           THEN /\ Exit(t, "backupTask", checked, Returned(NilResult, "SourceNotFound", call))
                /\ running' = Exited(t, "unlock")
           ELSE /\ slot' = [slot EXCEPT ![t] =
                      [checked EXCEPT !.pc = "backup", !.trace = Append(checked.trace, "backup")]]
                /\ running' = Exited(t, "unlock") \cup Started(t, "backup")
                /\ ret' = NoRet
                /\ UNCHANGED <<repoLock, crashed>>
    /\ UNCHANGED <<mpc, registered>>

\* "restic backup" exited before the timeout
BackupReturn(t) ==
    /\ Live
    /\ slot[t].pc = "backup"
    /\ running' = Exited(t, "backup")
    /\ \E out \in Outputs, ok \in BOOLEAN :
          Exit(t, "backupTask", slot[t], BackupOutcome(Call(t, "backup", ok, FALSE, out)))
    /\ UNCHANGED <<mpc, registered>>

\* "restic backup" was still running at the timeout and was killed
BackupTimeout(t) ==
    /\ Live
    /\ slot[t].pc = "backup"
    /\ running' = Exited(t, "backup")
    /\ Exit(t, "backupTask", slot[t], BackupOutcome(Call(t, "backup", FALSE, TRUE, << >>)))
    /\ UNCHANGED <<mpc, registered>>

\* RemoveValidate with a fault: the ok of the dataId lookup is not checked
RemoveValidateNameOnly(t) ==
    /\ Live
    /\ slot[t].pc = "locked"
    /\ slot[t].req.type = "remove"
    /\ IF ~HasField(slot[t].req.backupName)
       THEN Exit(t, "removeTask", slot[t], Returned(NilResult, "MissingField", NoCall)) /\ UNCHANGED running
       ELSE GoUnlock(t, slot[t])
    /\ UNCHANGED <<mpc, registered>>

\* removeTask, from the lock to the unlock command
RemoveValidate(t) ==
    /\ Live
    /\ slot[t].pc = "locked"
    /\ slot[t].req.type = "remove"
    /\ LET loc == slot[t]
           bn == loc.req.backupName
           di == loc.req.dataId
       IN  IF ~HasField(bn)
           THEN Exit(t, "removeTask", loc, Returned(NilResult, "MissingField", NoCall)) /\ UNCHANGED running
           ELSE IF bn.kind # "string"
           THEN Exit(t, "removeTask", loc, Panicked(FALSE, NoCall)) /\ UNCHANGED running
           ELSE IF ~HasField(di)
           THEN Exit(t, "removeTask", loc, Returned(NilResult, "MissingField", NoCall)) /\ UNCHANGED running
           ELSE IF di.kind # "string"
           THEN Exit(t, "removeTask", loc, Panicked(FALSE, NoCall)) /\ UNCHANGED running
           ELSE GoUnlock(t, loc)
    /\ UNCHANGED <<mpc, registered>>

\* "restic unlock" returned to removeTask; on success deleteBackup starts "restic forget"
RemoveUnlockReturn(t, ok) ==
    /\ Live
    /\ slot[t].pc = "unlock"
    /\ slot[t].req.type = "remove"
    /\ LET loc == slot[t]
           call == Call(t, "unlock", ok, FALSE, << >>)
       IN  IF UnlockFailed(call)
           THEN /\ Exit(t, "removeTask", loc, Returned(NilResult, ExecErr(call), call))
                /\ running' = Exited(t, "unlock")
           ELSE /\ slot' = [slot EXCEPT ![t] =
                      [loc EXCEPT !.pc = "forget", !.trace = Append(loc.trace, "forget")]]
                /\ running' = Exited(t, "unlock") \cup Started(t, "forget")
                /\ ret' = NoRet
                /\ UNCHANGED <<repoLock, crashed>>
    /\ UNCHANGED <<mpc, registered>>

\* RemoveOutcome with a fault: the returned identifier is not compared
RemoveOutcomeNoCompare(call, dataID) ==
    IF ExecErr(call) # "nil"
    THEN Returned(NilResult, ExecErr(call), call)
    ELSE IF Len(FindRemoved(call.out)) # 2
    THEN Returned(NilResult, "ResultNotFound", call)
    ELSE Returned(RemoveResult, "nil", call)

\* RemoveOutcome with a fault: the result of a removal carries the identifier
RemoveOutcomeEchoesId(call, dataID) ==
    IF ExecErr(call) # "nil"
    THEN Returned(NilResult, ExecErr(call), call)
    ELSE LET id == FindRemoved(call.out)
         IN  IF Len(id) # 2
             THEN Returned(NilResult, "ResultNotFound", call)
             ELSE IF id[2] # dataID
             THEN Returned(NilResult, "IdentifierMismatch", call)
             ELSE Returned([RemoveResult EXCEPT !.outputKeys = {"dataId"}, !.dataId = dataID], "nil", call)

\* deleteBackup after "restic forget" has returned, and what removeTask makes of it
RemoveOutcome(call, dataID) ==
    IF ExecErr(call) # "nil"
    THEN Returned(NilResult, ExecErr(call), call)
    ELSE LET id == FindRemoved(call.out)
         IN  IF Len(id) # 2
             THEN Returned(NilResult, "ResultNotFound", call)
             ELSE IF id[2] # dataID
             THEN Returned(NilResult, "IdentifierMismatch", call)
             ELSE Returned(RemoveResult, "nil", call)

\* ForgetReturn with a fault: "restic forget" is killed at a deadline as well
ForgetReturnOrDeadline(t) ==
    /\ Live
    /\ slot[t].pc = "forget"
    /\ running' = Exited(t, "forget")
    /\ \E timedOut \in BOOLEAN :
          Exit(t, "removeTask", slot[t],
               RemoveOutcome(Call(t, "forget", FALSE, timedOut, << >>), slot[t].req.dataId.id))
    /\ UNCHANGED <<mpc, registered>>

\* "restic forget" exited
ForgetReturn(t) ==
    /\ Live
    /\ slot[t].pc = "forget"
    /\ running' = Exited(t, "forget")
    /\ \E out \in Outputs, ok \in BOOLEAN :
          Exit(t, "removeTask", slot[t],
               RemoveOutcome(Call(t, "forget", ok, FALSE, out), slot[t].req.dataId.id))
    /\ UNCHANGED <<mpc, registered>>

\* the worker takes what a finished handler returned
Collect ==
    /\ ~crashed
    /\ ret.fn \in {"backupTask", "removeTask"}
    /\ ret' = NoRet
    /\ UNCHANGED <<repoLock, mpc, registered, crashed, slot, running>>

\* ----------------------------------------------------------- specification
Next ==
    \/ InitRepoLock
    \/ \E ok \in BOOLEAN : ProbeReturn(ok)
    \/ \E ok \in BOOLEAN : InitReturn(ok)
    \/ StartBackup
    \/ StartRemove
    \/ \E t \in Tasks, r \in BackupRequests \cup RemoveRequests : Deliver(t, r)
    \/ \E t \in Tasks : Lock(t)
    \/ \E t \in Tasks : BackupValidate(t)
    \/ \E t \in Tasks, ok \in BOOLEAN, st \in StatOutcomes : BackupUnlockReturn(t, ok, st)
    \/ \E t \in Tasks : BackupReturn(t)
    \/ \E t \in Tasks : BackupTimeout(t)
    \/ \E t \in Tasks : RemoveValidate(t)
    \/ \E t \in Tasks, ok \in BOOLEAN : RemoveUnlockReturn(t, ok)
    \/ \E t \in Tasks : ForgetReturn(t)
    \/ Collect

Spec == Init /\ [][Next]_vars

\* The same worker when the tasks come one at a time: a task is delivered
\* only while no handler is running.
AllIdle == \A t \in Tasks : slot[t].pc = "idle"

NextSeq ==
    \/ InitRepoLock
    \/ \E ok \in BOOLEAN : ProbeReturn(ok)
    \/ \E ok \in BOOLEAN : InitReturn(ok)
    \/ StartBackup
    \/ StartRemove
    \/ \E t \in Tasks, r \in BackupRequests \cup RemoveRequests : AllIdle /\ Deliver(t, r)
    \/ \E t \in Tasks : Lock(t)
    \/ \E t \in Tasks : BackupValidate(t)
    \/ \E t \in Tasks, ok \in BOOLEAN, st \in StatOutcomes : BackupUnlockReturn(t, ok, st)
    \/ \E t \in Tasks : BackupReturn(t)
    \/ \E t \in Tasks : BackupTimeout(t)
    \/ \E t \in Tasks : RemoveValidate(t)
    \/ \E t \in Tasks, ok \in BOOLEAN : RemoveUnlockReturn(t, ok)
    \/ \E t \in Tasks : ForgetReturn(t)
    \/ Collect

SpecSeq == Init /\ [][NextSeq]_vars

\* The worker under a fair scheduler.  Every goroutine that can take a step
\* takes it in the end, and an engine command that was started ends (or, for
\* "restic backup", is killed at the timeout).  A goroutine blocked in
\* repoLock.Lock() gets the mutex if it is free again and again: sync.Mutex
\* hands the mutex to a waiter that has been passed over (starvation mode).
\* Nothing obliges the task queue to deliver more tasks.
Fairness ==
    /\ WF_vars(InitRepoLock)
    /\ WF_vars(\E ok \in BOOLEAN : ProbeReturn(ok))
    /\ WF_vars(\E ok \in BOOLEAN : InitReturn(ok))
    /\ WF_vars(StartBackup)
    /\ WF_vars(StartRemove)
    /\ WF_vars(Collect)
    /\ \A t \in Tasks :
          /\ SF_vars(Lock(t))
          /\ WF_vars(BackupValidate(t))
          /\ WF_vars(\E ok \in BOOLEAN, st \in StatOutcomes : BackupUnlockReturn(t, ok, st))
          /\ WF_vars(BackupReturn(t) \/ BackupTimeout(t))
          /\ WF_vars(RemoveValidate(t))
          /\ WF_vars(\E ok \in BOOLEAN : RemoveUnlockReturn(t, ok))
          /\ WF_vars(ForgetReturn(t))

\* the tasks whose input data is as the handlers expect it: a backupName that
\* is a string and not empty, a timeoutSeconds that is a number if there is
\* one, and for a remove a dataId that is a string
ValidRequests ==
    {r \in BackupRequests \cup RemoveRequests :
        /\ r.backupName.kind = "string"
        /\ r.backupName.str # ""
        /\ r.timeoutSeconds.kind \in {"absent", "number"}
        /\ r.type = "remove" => r.dataId.kind = "string"}

\* the worker fed with such tasks only, at any time
NextValid ==
    \/ InitRepoLock
    \/ \E ok \in BOOLEAN : ProbeReturn(ok)
    \/ \E ok \in BOOLEAN : InitReturn(ok)
    \/ StartBackup
    \/ StartRemove
    \/ \E t \in Tasks, r \in ValidRequests : Deliver(t, r)
    \/ \E t \in Tasks : Lock(t)
    \/ \E t \in Tasks : BackupValidate(t)
    \/ \E t \in Tasks, ok \in BOOLEAN, st \in StatOutcomes : BackupUnlockReturn(t, ok, st)
    \/ \E t \in Tasks : BackupReturn(t)
    \/ \E t \in Tasks : BackupTimeout(t)
    \/ \E t \in Tasks : RemoveValidate(t)
    \/ \E t \in Tasks, ok \in BOOLEAN : RemoveUnlockReturn(t, ok)
    \/ \E t \in Tasks : ForgetReturn(t)
    \/ Collect

SpecFair == Init /\ [][NextValid]_vars /\ Fairness

\* ================================================================ properties
\* who is inside the guard: between Lock() and the deferred Unlock()
InGuard(t) == slot[t].pc \in {"locked", "unlock", "backup", "forget"}
Holders == {t \in Tasks : InGuard(t)} \cup (IF mpc \in {"probe", "init"} THEN {MainProc} ELSE {})

\* a handler or initRepo left in the last step
HasLeft == ret.how # "none"
Handler == ret.fn \in {"backupTask", "removeTask"}

\* the identifiers the engine's text confirms, read off the text itself:
\* "snapshot <id> saved", and "removed snapshot <id>" with <id> ending at a
\* space or at the end of the text
IdSeqs == SeqsUpTo(IdChars, MaxOut) \ {<< >>}
SavedLineAt(out, i, id) ==
    /\ i + Len(id) + 1 <= Len(out)
    /\ out[i] = KwSnapshot
    /\ SubSeq(out, i + 1, i + Len(id)) = id
    /\ out[i + Len(id) + 1] = KwSaved
SavedIds(out) == {id \in IdSeqs : \E i \in 1..Len(out) : SavedLineAt(out, i, id)}
RemovedLineAt(out, i, id) ==
    /\ i + 1 + Len(id) <= Len(out)
    /\ out[i] = KwRemoved
    /\ out[i + 1] = KwSnapshot
    /\ SubSeq(out, i + 2, i + 1 + Len(id)) = id
    /\ (i + 2 + Len(id) > Len(out) \/ out[i + 2 + Len(id)] = KwSaved)
RemovedIds(out) == {id \in IdSeqs : \E i \in 1..Len(out) : RemovedLineAt(out, i, id)}

\* ---------------------------------------------------------------------- C1
\* C1: at most one of initRepo, backupTask and removeTask is inside the guard
\* at any time, and every engine command that is executing belongs to the one
\* that is inside: the engine commands of two requests never overlap.
C1_MutualExclusion ==
    /\ Cardinality(Holders) <= 1
    /\ Cardinality(running) <= 1
    /\ \A c \in running : c.owner \in Holders

\* a handler runs an engine command inside the guard while another request waits at Lock()
C1_Witness ==
    \E t, u \in Tasks :
        /\ t # u
        /\ slot[t].pc \in {"unlock", "backup", "forget"}
        /\ [owner |-> t, verb |-> slot[t].pc] \in running
        /\ slot[u].pc = "waiting"
        /\ repoLock

\* ---------------------------------------------------------------------- C2
\* C2: whichever way backupTask, removeTask or initRepo leaves (a result, any
\* error, a panic), the guard is free right afterwards, nobody is inside, so
\* that Lock() of a later operation goes through; and the guard is never
\* locked with nobody inside.
C2_NoExitLeaksGuard ==
    /\ HasLeft => (LockFree /\ Holders = {} /\ running = {})
    /\ repoLock => Holders # {}

\* removeTask left by the identifier-mismatch error and the guard is free
C2_Witness ==
    /\ ret.fn = "removeTask"
    /\ ret.err = "IdentifierMismatch"
    /\ LockFree

\* ---------------------------------------------------------------------- C3
\* C3: when "restic backup" is still running at the timeout, backupTask returns
\* a TimeoutError and no result, the command is no longer running, and the
\* guard is free for the next request.
C3_TimeoutReleasesGuard ==
    ret.call.timedOut =>
        /\ ret.fn = "backupTask"
        /\ ret.call.verb = "backup"
        /\ ret.how = "returned"
        /\ ret.err = "TimeoutError"
        /\ ret.tr = NilResult
        /\ running = {}
        /\ LockFree

\* a backup with timeoutSeconds 30 timed out
C3_Witness ==
    /\ ret.call.timedOut
    /\ ret.createTimeout = 30
    /\ ret.err = "TimeoutError"
    /\ LockFree

\* ---------------------------------------------------------------------- C4
\* C4: when "restic backup" exits without error and its output holds no
\* "snapshot <id> saved" line, backupTask logs a warning and returns a
\* ResultNotFound error and no result.
C4_NoConfirmationIsAnError ==
    (ret.call.verb = "backup" /\ ret.call.ok /\ SavedIds(ret.call.out) = {}) =>
        /\ ret.warned
        /\ ret.how = "returned"
        /\ ret.err = "ResultNotFound"
        /\ ret.tr = NilResult

\* ---------------------------------------------------------------------- C5
\* C5: after initRepo has returned an error, main() registers no handler and
\* goes no further.
C5_FailedInitAbortsStartup ==
    [][(ret.fn = "initRepo" /\ ret.err # "nil") => (registered' = {} /\ mpc' = mpc)]_vars

\* ---------------------------------------------------------------------- C6
\* C6 as stated: whenever the output of "restic forget" confirms identifiers
\* and the requested dataId is not among them, removeTask returns an
\* IdentifierMismatch error and no COMPLETED result.
C6_Original ==
    (ret.call.verb = "forget" /\ RemovedIds(ret.call.out) # {}
        /\ ret.req.dataId.id \notin RemovedIds(ret.call.out)) =>
        /\ ret.how = "returned"
        /\ ret.err = "IdentifierMismatch"
        /\ ret.tr.status # "COMPLETED"

\* C6 as amended: in that case removeTask never returns a COMPLETED result,
\* and when "restic forget" itself exited without error the error returned is
\* IdentifierMismatch (when it exited with an error, that error is returned).
C6_MismatchIsAnError ==
    (ret.call.verb = "forget" /\ RemovedIds(ret.call.out) # {}
        /\ ret.req.dataId.id \notin RemovedIds(ret.call.out)) =>
        /\ ret.how = "returned"
        /\ ret.tr = NilResult
        /\ ret.err = IF ret.call.ok THEN "IdentifierMismatch" ELSE "EngineExecutionError"

\* dataId "a" was asked for, "restic forget" exited without error and printed "removed snapshot b"
C6_Witness ==
    /\ ret.fn = "removeTask"
    /\ ret.req.dataId.id = <<"a">>
    /\ ret.call.ok
    /\ ret.call.out = <<KwRemoved, KwSnapshot, "b">>
    /\ ret.err = "IdentifierMismatch"

\* ---------------------------------------------------------------------- C7
\* C7 as stated: a backup request with a backupName, whose source directory
\* exists, whose unlock succeeded and whose "restic backup" printed a
\* "snapshot <id> saved" line, gets a COMPLETED result with that <id> as
\* dataId and a dataSizeMB that is not negative.
C7_Original ==
    (ret.fn = "backupTask" /\ ret.req.backupName.kind = "string" /\ ret.stat = "exists"
        /\ ret.call.verb = "backup" /\ SavedIds(ret.call.out) # {}) =>
        /\ ret.how = "returned"
        /\ ret.err = "nil"
        /\ ret.tr.status = "COMPLETED"
        /\ ret.tr.dataId \in SavedIds(ret.call.out)
        /\ ret.tr.dataSizeMB >= 0

\* C7 as amended: the same, provided "restic backup" also exited without
\* error; when it exited with an error, that error is returned and no result,
\* whatever it printed.
C7_BackupReturnsCapturedId ==
    (ret.fn = "backupTask" /\ ret.req.backupName.kind = "string" /\ ret.stat = "exists"
        /\ ret.call.verb = "backup" /\ SavedIds(ret.call.out) # {}) =>
        /\ ret.how = "returned"
        /\ IF ret.call.ok
           THEN /\ ret.err = "nil"
                /\ ret.tr.status = "COMPLETED"
                /\ ret.tr.outputKeys = {"dataId", "dataSizeMB"}
                /\ ret.tr.dataId \in SavedIds(ret.call.out)
                /\ ret.tr.dataSizeMB >= 0
           ELSE /\ ret.err = "EngineExecutionError"
                /\ ret.tr = NilResult

\* the backup of "db1" printed "snapshot a saved" and the result carries dataId "a"
C7_Witness ==
    /\ ret.fn = "backupTask"
    /\ ret.req.backupName = Str("db1")
    /\ ret.call.ok
    /\ ret.call.out = <<KwSnapshot, "a", KwSaved>>
    /\ ret.tr.status = "COMPLETED"
    /\ ret.tr.dataId = <<"a">>

\* ---------------------------------------------------------------------- C8
\* C8: a backup request without backupName ends with a MissingField error and
\* no result, and at no time is an engine command (unlock, backup) issued for it.
C8_MissingNameRejected ==
    /\ (ret.fn = "backupTask" /\ ret.req.backupName.kind = "absent") =>
          /\ ret.how = "returned"
          /\ ret.err = "MissingField"
          /\ ret.tr = NilResult
          /\ ret.trace = << >>
          /\ ret.call = NoCall
    /\ \A t \in Tasks :
          (slot[t].req.type = "backup" /\ slot[t].req.backupName.kind = "absent") =>
              /\ slot[t].pc \in {"waiting", "locked"}
              /\ slot[t].trace = << >>
              /\ \A c \in running : c.owner # t

\* a backup request with timeoutSeconds but no backupName was rejected
C8_Witness ==
    /\ ret.fn = "backupTask"
    /\ ret.req.backupName = Absent
    /\ ret.req.timeoutSeconds = Num(30)
    /\ ret.err = "MissingField"

C10_UnlockFailureAborts ==
    (ret.call.verb = "unlock" /\ ~ret.call.ok) =>
        /\ Handler
        /\ ret.how = "returned"
        /\ ret.err = "EngineExecutionError"
        /\ ret.tr = NilResult
        /\ ret.trace = <<"unlock">>
        /\ ret.stat = "none"
        /\ running = {}

\* removeTask returned the error of a failed unlock
C10_Witness ==
    /\ ret.fn = "removeTask"
    /\ ret.call.verb = "unlock"
    /\ ~ret.call.ok
    /\ ret.err = "EngineExecutionError"
    /\ ret.trace = <<"unlock">>

C12_RemoveReturnsEmptyResult ==
    (ret.fn = "removeTask" /\ ret.call.verb = "forget" /\ ret.call.ok
        /\ ret.req.dataId.id \in RemovedIds(ret.call.out)) =>
        /\ ret.how = "returned"
        /\ ret.err = "nil"
        /\ ret.tr.status = "COMPLETED"
        /\ ret.tr.outputKeys = {}
        /\ ret.tr = RemoveResult
        /\ ret.trace = <<"unlock", "forget">>

\* dataId "a" of "db1" was asked for, "restic forget" printed "removed snapshot a"
C12_Witness ==
    /\ ret.fn = "removeTask"
    /\ ret.req.backupName = Str("db1")
    /\ ret.req.dataId = IdStr(<<"a">>)
    /\ ret.call.ok
    /\ ret.call.out = <<KwRemoved, KwSnapshot, "a">>
    /\ ret.tr.status = "COMPLETED"

\* --------------------------------------------------------------------- C13
\* C13: a backup request that has a backupName and whose timeoutSeconds is
\* absent or is not a number goes on to the unlock command with a timeout of
\* 60 seconds; it does not fail on that account.
C13_TimeoutDefaultsTo60 ==
    /\ (ret.fn = "backupTask" /\ ret.req.backupName.kind = "string"
          /\ ret.req.timeoutSeconds.kind \in {"absent", "other"}) =>
          /\ ret.how = "returned"
          /\ ret.trace # << >>
          /\ ret.createTimeout = DefaultTimeout
    /\ \A t \in Tasks :
          (slot[t].pc \in {"unlock", "backup"} /\ slot[t].req.type = "backup"
            /\ slot[t].req.timeoutSeconds.kind \in {"absent", "other"}) =>
              slot[t].createTimeout = DefaultTimeout

\* --------------------------------------------------------------------- C14
\* the identifiers a successful backup can hand out: what createNewBackup
\* captures from an output that has the confirmation line
BackupIds == {FindSaved(o)[2] : o \in {x \in Outputs : FindSaved(x) # << >>}}

\* C14: every dataId a backup returns is a plain identifier, and a remove
\* request that carries an identifier a backup can return, against a "restic
\* forget" that exits without error and confirms the removal of exactly that
\* identifier, succeeds.
C14_RoundTrip ==
    /\ (ret.fn = "backupTask" /\ ret.tr.status = "COMPLETED") =>
          /\ ret.tr.dataId \in IdSeqs
          /\ ret.tr.dataId \in BackupIds
    /\ (ret.fn = "removeTask" /\ ret.call.verb = "forget" /\ ret.call.ok
          /\ RemovedIds(ret.call.out) = {ret.req.dataId.id}
          /\ ret.req.dataId.id \in BackupIds) =>
          /\ ret.how = "returned"
          /\ ret.err = "nil"
          /\ ret.tr.status = "COMPLETED"

\* the identifier "b", which "snapshot b saved" yields, was removed
C14_Witness ==
    /\ ret.fn = "removeTask"
    /\ ret.req.dataId.id = <<"b">>
    /\ FindSaved(<<KwSnapshot, "b", KwSaved>>)[2] = ret.req.dataId.id
    /\ ret.call.ok
    /\ RemovedIds(ret.call.out) = {<<"b">>}
    /\ Len(ret.call.out) = MaxOut
    /\ ret.tr.status = "COMPLETED"

\* --------------------------------------------------------------------- C15
\* a request that lacks a field its handler requires
MissingRequired(r) ==
    \/ r.type = "backup" /\ r.backupName.kind = "absent"
    \/ r.type = "remove" /\ (r.backupName.kind = "absent" \/ r.dataId.kind = "absent")

\* C15: a request with a missing required field never holds the guard and
\* never waits for it while it is held; it is rejected with MissingField.
C15_ValidationOutsideGuard ==
    /\ \A t \in Tasks :
          MissingRequired(slot[t].req) =>
              /\ ~InGuard(t)
              /\ ~(slot[t].pc = "waiting" /\ repoLock)
    /\ (Handler /\ MissingRequired(ret.req)) => ret.err = "MissingField"

\* --------------------------------------------------------------------- C16
\* C16: a backup request whose backupName is the empty string ends with a
\* MissingField error, and "restic backup" is never issued for it.
C16_EmptyNameRejected ==
    /\ (ret.fn = "backupTask" /\ ret.req.backupName = Str("")) =>
          /\ ret.how = "returned"
          /\ ret.err = "MissingField"
          /\ ret.tr = NilResult
          /\ \A i \in 1..Len(ret.trace) : ret.trace[i] # "backup"
    /\ \A t \in Tasks :
          (slot[t].req.type = "backup" /\ slot[t].req.backupName = Str("")) =>
              /\ slot[t].pc # "backup"
              /\ [owner |-> t, verb |-> "backup"] \notin running

\* --------------------------------------------------------------------- C17
\* the steps main() can make, in the order of the code
MainOrder ==
    {<<"initRepo", "probe">>, <<"probe", "init">>, <<"probe", "startBackup">>,
     <<"init", "startBackup">>, <<"startBackup", "startRemove">>, <<"startRemove", "serving">>}

InitRepoState ==
    \* until initRepo has returned to main() no handler is registered or running
    /\ mpc \in {"initRepo", "probe", "init", "startBackup"} => (registered = {} /\ AllIdle)
    \* the probe and the init command run inside the guard, one at a time
    /\ mpc = "probe" => (repoLock /\ running = Started(MainProc, "snapshots"))
    /\ mpc = "init" => (repoLock /\ running = Started(MainProc, "init"))
    /\ \A c \in running : c.owner = MainProc => mpc \in {"probe", "init"}
    \* initRepo returns after a probe that succeeded, or after the probe and one init
    /\ ret.fn = "initRepo" =>
          /\ LockFree
          /\ running = {}
          /\ \/ ret.call.verb = "snapshots" /\ ret.call.ok /\ ret.trace = <<"snapshots">>
             \/ ret.call.verb = "init" /\ ret.trace = <<"snapshots", "init">>

InitRepoStep ==
    /\ mpc' # mpc => <<mpc, mpc'>> \in MainOrder
    /\ (mpc = "probe" /\ mpc' = "startBackup") => (ret'.call.verb = "snapshots" /\ ret'.call.ok)
    /\ (mpc = "probe" /\ mpc' = "init") => (ret' = NoRet /\ repoLock')

\* C17: initRepo runs once, inside the guard, and has returned before any
\* handler is registered: the probe comes first; after a probe that succeeded
\* no init command is issued, after one that failed the init command is issued
\* once; main() never goes back to an earlier step.
C17_InitOnceBeforeHandlers == []InitRepoState /\ [][InitRepoStep]_vars

\* initRepo returned after a failed probe and a successful "restic init"
C17_Witness ==
    /\ ret.fn = "initRepo"
    /\ ret.trace = <<"snapshots", "init">>
    /\ ret.call.verb = "init"
    /\ ret.call.ok
    /\ registered = {}

\* --------------------------------------------------------------------- C18
\* a request blocked in Lock() leaves it only by acquiring the guard
WaitersOnlyAcquire ==
    \A t \in Tasks : slot[t].pc = "waiting" => slot'[t].pc \in {"waiting", "locked"}

\* C18: a request that finds the guard held is not turned away: it stays in
\* Lock() until it acquires the guard; and when every holder releases the
\* guard in the end and the waiters are scheduled fairly, every waiting
\* request acquires the guard and runs (as long as the process lives).
C18_WaitersBlockThenAcquire ==
    /\ [][WaitersOnlyAcquire]_vars
    /\ \A t \in Tasks : (slot[t].pc = "waiting") ~> (slot[t].pc = "locked" \/ crashed)

\* a backup request waits in Lock() while a remove holds the guard in "restic forget"
C18_Witness ==
    \E t, u \in Tasks :
        /\ slot[t].pc = "waiting"
        /\ slot[t].req.type = "backup"
        /\ slot[u].pc = "forget"
        /\ repoLock
        /\ ~crashed

\* --------------------------------------------------------------------- C19
\* the handler waits for an engine command that has no deadline
PendingNoDeadline(t) ==
    /\ slot[t].pc \in {"unlock", "forget"}
    /\ [owner |-> t, verb |-> slot[t].pc] \in running

NoDeadlineState ==
    \* the handler is in such a call exactly as long as the command runs, and holds the guard
    /\ \A t \in Tasks :
          slot[t].pc \in {"unlock", "forget"} =>
              /\ PendingNoDeadline(t)
              /\ repoLock
              /\ Holders = {t}
    \* only "restic backup" is ever ended by a deadline
    /\ ret.call.timedOut => ret.call.verb = "backup"
    /\ ret.err = "TimeoutError" => ret.call.verb = "backup"

NoDeadlineStep ==
    \A t \in Tasks :
        PendingNoDeadline(t) =>
            \* as long as the command has not exited, the handler stays where it
            \* is, the guard stays locked, and every other request stays out
            /\ [owner |-> t, verb |-> slot[t].pc] \in running' =>
                  /\ slot'[t] = slot[t]
                  /\ repoLock'
                  /\ ret' = NoRet
                  /\ \A u \in Tasks \ {t} : slot'[u].pc \in {"idle", "waiting"}
                  /\ \A u \in Tasks \ {t} : slot[u].pc = "waiting" => slot'[u] = slot[u]
            \* the handler moves on only when the command has exited by itself
            /\ slot'[t] # slot[t] =>
                  /\ [owner |-> t, verb |-> slot[t].pc] \notin running'
                  /\ ~ret'.call.timedOut

\* C19: the unlock call and the "restic forget" call have no deadline: while
\* such a command has not exited its handler does not return, the guard stays
\* locked and every other request stays blocked in Lock(); only "restic
\* backup" is ever ended by a timeout.
C19_NoDeadlineBlocksAll == []NoDeadlineState /\ [][NoDeadlineStep]_vars

\* a remove request waits in Lock() while a backup holds the guard in "restic unlock"
C19_Witness ==
    \E t, u \in Tasks :
        /\ slot[t].req.type = "backup"
        /\ PendingNoDeadline(t)
        /\ slot[t].pc = "unlock"
        /\ slot[u].pc = "waiting"
        /\ slot[u].req.type = "remove"
        /\ repoLock

\* --------------------------------------------------------------------- C20
\* C20: "restic backup" is issued only after os.Stat has shown that the source
\* directory exists; when os.Stat fails in any way the command is not issued.
C20_BackupOnlyIfSourceVerified ==
    /\ \A t \in Tasks :
          (slot[t].pc = "backup" \/ [owner |-> t, verb |-> "backup"] \in running) =>
              slot[t].stat = "exists"
    /\ (ret.fn = "backupTask" /\ ret.stat \in {"notexist", "error"}) =>
          /\ ret.call.verb # "backup"
          /\ \A i \in 1..Len(ret.trace) : ret.trace[i] # "backup"

====
